---- MODULE Spec2Model ----
(***************************************************************************)
(* A model of the motorcycle simulation of src/script.js: the generated    *)
(* track and its queries, the two wheels, the four control flags, and the  *)
(* update loop (gravity, control forces, integration, constraint,          *)
(* collision, tilt); and, in the sections that start at "The match-3      *)
(* game", a model of the match-3 game of src/game.js: its grid, its moves  *)
(* with their timed waits, and its pointer, Hint and Restart handlers.     *)
(*                                                                         *)
(* Numbers.  The source computes in IEEE doubles; the model computes in    *)
(* fixed point, each product and quotient rounded to the nearest unit:     *)
(*   positions   in units of 1/PosScale px   (1e-4 px),                    *)
(*   velocities  in units of 1/VelScale px/s (0.1 px/s),                   *)
(*   times       in ms,                                                    *)
(*   slopes      in units of 1/SlopeScale,                                 *)
(*   angles      in units of 1e-6 rad,                                     *)
(*   sines       in units of 1/TrigScale.                                  *)
(* With these units gravity, the control forces and the integration are    *)
(* exact: 1 (0.1 px/s) * 1 ms = 1e-4 px.                                   *)
(*                                                                         *)
(* Intermediate values are handed on as operator arguments rather than     *)
(* named in LET, so that each operator is expanded once where it is used.  *)
(***************************************************************************)
EXTENDS Integers, Sequences, FiniteSets

PosScale == 10000
VelScale == 10
SlopeScale == 1000
TrigScale == 1000000
MsPerSecond == 1000

----------------------------------------------------------------------------
(* Arithmetic of the source's numbers *)

Abs(n) == IF n < 0 THEN -n ELSE n

Min(a, b) == IF a <= b THEN a ELSE b

Signed(neg, n) == IF neg THEN -n ELSE n

\* One base-16 digit d of the multiplier: from h = <<q, r>> of the higher
\* digits to <<q, r>> with the digit appended.
MulStep(h, d, a, c) ==
  << 16 * h[1] + d * (a \div c) + (16 * h[2] + d * (a % c)) \div c,
     (16 * h[2] + d * (a % c)) % c >>

\* <<q, r>> with a * b = q * c + r and 0 <= r < c, for a, b >= 0 and c > 0,
\* computed digit by digit of b (base 16) so that no intermediate product
\* leaves 32 bits.
RECURSIVE MulQR(_, _, _)
MulQR(a, b, c) ==
  IF b = 0 THEN <<0, 0>>
  ELSE MulStep(MulQR(a, b \div 16, c), b % 16, a, c)

RoundQR(qr, c) == IF 2 * qr[2] >= c THEN qr[1] + 1 ELSE qr[1]

\* a * b / c, rounded to the nearest unit (half away from zero).
MulDiv(a, b, c) ==
  Signed((a < 0) # (b < 0), RoundQR(MulQR(Abs(a), Abs(b), c), c))

\* Products wider than 32 bits are kept as <<high, low>> in base WideBase.
WideBase == 1048576

WideLeq(p, q) == p[1] < q[1] \/ (p[1] = q[1] /\ p[2] <= q[2])

WideSum(s, t) ==
  << s[1] + t[1] + (IF s[2] + t[2] >= WideBase THEN 1 ELSE 0),
     (s[2] + t[2]) % WideBase >>

\* Whether a * b <= c * d, for a, b, c, d >= 0.
LeqProd(a, b, c, d) == WideLeq(MulQR(a, b, WideBase), MulQR(c, d, WideBase))

\* Whether n * n <= a * a + b * b, for n, a, b >= 0.
SqLeqSum(n, a, b) ==
  WideLeq(MulQR(n, n, WideBase),
          WideSum(MulQR(a, a, WideBase), MulQR(b, b, WideBase)))

\* The square root of a * a + b * b, two bits at a time: base is raised by
\* as many units (0..3) as keep its square within a * a + b * b, and the
\* unit is refined down to 1.
RECURSIVE SqrtSearch(_, _, _, _)
SqrtSearch(base, unit, a, b) ==
  IF unit = 0 THEN base
  ELSE SqrtSearch(
         base + unit * Cardinality({ k \in 1..3 :
                                       SqLeqSum(base + k * unit, a, b) }),
         unit \div 4, a, b)

SqrtTopUnit == 4194304

\* Math.sqrt(a * a + b * b), rounded down to the unit; a and b below 2^23.
Hypot(a, b) == SqrtSearch(0, SqrtTopUnit, Abs(a), Abs(b))

----------------------------------------------------------------------------
(* Math.sin, Math.cos, Math.atan, Math.atan2 *)

Pi == 3141593
HalfPi == 1570796
TableStep == 1000

\* SinTable[i + 1] = sin(i / 1000) * TrigScale, for i in 0..1571.
SinTable == <<
    0, 1000, 2000, 3000, 4000, 5000, 6000, 7000, 8000, 9000, 10000, 11000,
    12000, 13000, 14000, 14999, 15999, 16999, 17999, 18999, 19999, 20998, 21998, 22998,
    23998, 24997, 25997, 26997, 27996, 28996, 29996, 30995, 31995, 32994, 33993, 34993,
    35992, 36992, 37991, 38990, 39989, 40989, 41988, 42987, 43986, 44985, 45984, 46983,
    47982, 48980, 49979, 50978, 51977, 52975, 53974, 54972, 55971, 56969, 57967, 58966,
    59964, 60962, 61960, 62958, 63956, 64954, 65952, 66950, 67948, 68945, 69943, 70940,
    71938, 72935, 73932, 74930, 75927, 76924, 77921, 78918, 79915, 80911, 81908, 82905,
    83901, 84898, 85894, 86890, 87886, 88883, 89879, 90874, 91870, 92866, 93862, 94857,
    95853, 96848, 97843, 98838, 99833, 100828, 101823, 102818, 103813, 104807, 105802, 106796,
    107790, 108784, 109778, 110772, 111766, 112760, 113753, 114747, 115740, 116733, 117726, 118719,
    119712, 120705, 121698, 122690, 123682, 124675, 125667, 126659, 127651, 128643, 129634, 130626,
    131617, 132608, 133599, 134590, 135581, 136572, 137562, 138553, 139543, 140533, 141523, 142513,
    143503, 144492, 145482, 146471, 147460, 148449, 149438, 150427, 151415, 152404, 153392, 154380,
    155368, 156356, 157343, 158331, 159318, 160305, 161292, 162279, 163266, 164252, 165239, 166225,
    167211, 168197, 169182, 170168, 171153, 172138, 173123, 174108, 175093, 176077, 177062, 178046,
    179030, 180013, 180997, 181980, 182964, 183947, 184929, 185912, 186895, 187877, 188859, 189841,
    190823, 191804, 192785, 193767, 194747, 195728, 196709, 197689, 198669, 199649, 200629, 201609,
    202588, 203567, 204546, 205525, 206503, 207482, 208460, 209438, 210416, 211393, 212370, 213347,
    214324, 215301, 216277, 217254, 218230, 219205, 220181, 221156, 222131, 223106, 224081, 225056,
    226030, 227004, 227978, 228951, 229924, 230897, 231870, 232843, 233815, 234788, 235759, 236731,
    237703, 238674, 239645, 240616, 241586, 242556, 243526, 244496, 245466, 246435, 247404, 248373,
    249341, 250310, 251278, 252245, 253213, 254180, 255147, 256114, 257081, 258047, 259013, 259979,
    260944, 261909, 262874, 263839, 264803, 265768, 266731, 267695, 268658, 269622, 270584, 271547,
    272509, 273471, 274433, 275394, 276356, 277317, 278277, 279238, 280198, 281157, 282117, 283076,
    284035, 284994, 285952, 286910, 287868, 288826, 289783, 290740, 291697, 292653, 293609, 294565,
    295520, 296475, 297430, 298385, 299339, 300293, 301247, 302200, 303153, 304106, 305059, 306011,
    306963, 307914, 308866, 309816, 310767, 311717, 312667, 313617, 314567, 315516, 316464, 317413,
    318361, 319309, 320256, 321203, 322150, 323097, 324043, 324989, 325934, 326880, 327825, 328769,
    329713, 330657, 331601, 332544, 333487, 334430, 335372, 336314, 337255, 338197, 339138, 340078,
    341018, 341958, 342898, 343837, 344776, 345714, 346653, 347590, 348528, 349465, 350402, 351338,
    352274, 353210, 354145, 355080, 356015, 356949, 357883, 358817, 359750, 360683, 361615, 362548,
    363479, 364411, 365342, 366273, 367203, 368133, 369062, 369992, 370920, 371849, 372777, 373705,
    374632, 375559, 376486, 377412, 378338, 379263, 380188, 381113, 382037, 382961, 383885, 384808,
    385731, 386653, 387575, 388497, 389418, 390339, 391260, 392180, 393099, 394019, 394938, 395856,
    396774, 397692, 398609, 399526, 400443, 401359, 402275, 403190, 404105, 405019, 405933, 406847,
    407760, 408673, 409586, 410498, 411410, 412321, 413232, 414142, 415052, 415962, 416871, 417780,
    418688, 419596, 420503, 421410, 422317, 423223, 424129, 425035, 425939, 426844, 427748, 428652,
    429555, 430458, 431360, 432262, 433164, 434065, 434966, 435866, 436766, 437665, 438564, 439462,
    440360, 441258, 442155, 443052, 443948, 444844, 445739, 446634, 447529, 448423, 449316, 450210,
    451102, 451994, 452886, 453778, 454669, 455559, 456449, 457338, 458228, 459116, 460004, 460892,
    461779, 462666, 463552, 464438, 465323, 466208, 467093, 467977, 468860, 469743, 470626, 471508,
    472390, 473271, 474151, 475032, 475911, 476791, 477669, 478548, 479426, 480303, 481180, 482056,
    482932, 483807, 484682, 485557, 486431, 487304, 488177, 489050, 489922, 490793, 491664, 492535,
    493405, 494274, 495144, 496012, 496880, 497748, 498615, 499481, 500347, 501213, 502078, 502943,
    503807, 504670, 505533, 506396, 507258, 508119, 508981, 509841, 510701, 511561, 512420, 513278,
    514136, 514993, 515850, 516707, 517563, 518418, 519273, 520127, 520981, 521834, 522687, 523539,
    524391, 525242, 526093, 526943, 527793, 528642, 529491, 530339, 531186, 532033, 532880, 533726,
    534571, 535416, 536260, 537104, 537947, 538790, 539632, 540474, 541315, 542155, 542995, 543835,
    544674, 545512, 546350, 547187, 548024, 548860, 549696, 550531, 551365, 552199, 553033, 553866,
    554698, 555530, 556361, 557192, 558022, 558851, 559680, 560509, 561337, 562164, 562991, 563817,
    564642, 565468, 566292, 567116, 567939, 568762, 569584, 570406, 571227, 572048, 572867, 573687,
    574506, 575324, 576141, 576959, 577775, 578591, 579406, 580221, 581035, 581849, 582662, 583474,
    584286, 585097, 585908, 586718, 587528, 588336, 589145, 589952, 590760, 591566, 592372, 593178,
    593982, 594786, 595590, 596393, 597195, 597997, 598798, 599599, 600399, 601198, 601997, 602795,
    603593, 604390, 605186, 605982, 606777, 607572, 608366, 609159, 609952, 610744, 611536, 612327,
    613117, 613907, 614696, 615484, 616272, 617059, 617846, 618632, 619417, 620202, 620986, 621769,
    622552, 623335, 624116, 624897, 625678, 626457, 627237, 628015, 628793, 629570, 630347, 631123,
    631898, 632673, 633447, 634221, 634993, 635766, 636537, 637308, 638078, 638848, 639617, 640385,
    641153, 641920, 642687, 643453, 644218, 644982, 645746, 646509, 647272, 648034, 648795, 649556,
    650316, 651075, 651834, 652592, 653349, 654106, 654862, 655617, 656372, 657126, 657880, 658633,
    659385, 660136, 660887, 661637, 662387, 663135, 663884, 664631, 665378, 666124, 666870, 667614,
    668359, 669102, 669845, 670587, 671329, 672069, 672810, 673549, 674288, 675026, 675763, 676500,
    677236, 677972, 678707, 679441, 680174, 680907, 681639, 682370, 683101, 683831, 684560, 685289,
    686017, 686744, 687470, 688196, 688921, 689646, 690370, 691093, 691815, 692537, 693258, 693978,
    694698, 695417, 696135, 696853, 697570, 698286, 699001, 699716, 700430, 701144, 701856, 702568,
    703279, 703990, 704700, 705409, 706117, 706825, 707532, 708239, 708944, 709649, 710353, 711057,
    711760, 712462, 713163, 713864, 714564, 715263, 715961, 716659, 717356, 718052, 718748, 719443,
    720137, 720831, 721523, 722215, 722907, 723597, 724287, 724976, 725665, 726352, 727039, 727726,
    728411, 729096, 729780, 730463, 731146, 731828, 732509, 733189, 733869, 734548, 735226, 735903,
    736580, 737256, 737931, 738606, 739280, 739953, 740625, 741297, 741967, 742637, 743307, 743975,
    744643, 745310, 745977, 746642, 747307, 747971, 748634, 749297, 749959, 750620, 751280, 751940,
    752599, 753257, 753914, 754571, 755227, 755882, 756536, 757190, 757843, 758495, 759146, 759796,
    760446, 761095, 761744, 762391, 763038, 763684, 764329, 764973, 765617, 766260, 766902, 767544,
    768184, 768824, 769463, 770101, 770739, 771376, 772012, 772647, 773281, 773915, 774548, 775180,
    775811, 776442, 777072, 777701, 778329, 778956, 779583, 780209, 780834, 781459, 782082, 782705,
    783327, 783948, 784569, 785188, 785807, 786425, 787042, 787659, 788275, 788890, 789504, 790117,
    790730, 791341, 791952, 792563, 793172, 793781, 794388, 794995, 795602, 796207, 796812, 797415,
    798019, 798621, 799222, 799823, 800423, 801022, 801620, 802217, 802814, 803410, 804005, 804599,
    805192, 805785, 806377, 806968, 807558, 808147, 808736, 809324, 809911, 810497, 811082, 811667,
    812251, 812833, 813416, 813997, 814577, 815157, 815736, 816314, 816891, 817467, 818043, 818618,
    819192, 819765, 820337, 820908, 821479, 822049, 822618, 823186, 823753, 824320, 824886, 825451,
    826015, 826578, 827140, 827702, 828263, 828823, 829382, 829940, 830497, 831054, 831610, 832165,
    832719, 833272, 833825, 834376, 834927, 835477, 836026, 836574, 837122, 837668, 838214, 838759,
    839303, 839846, 840389, 840930, 841471, 842011, 842550, 843088, 843625, 844162, 844698, 845232,
    845766, 846300, 846832, 847363, 847894, 848424, 848953, 849481, 850008, 850534, 851060, 851584,
    852108, 852631, 853153, 853674, 854195, 854714, 855233, 855751, 856268, 856784, 857299, 857813,
    858327, 858840, 859351, 859862, 860372, 860882, 861390, 861898, 862404, 862910, 863415, 863919,
    864422, 864925, 865426, 865927, 866426, 866925, 867423, 867920, 868417, 868912, 869407, 869900,
    870393, 870885, 871376, 871866, 872355, 872844, 873331, 873818, 874304, 874789, 875273, 875756,
    876239, 876720, 877201, 877680, 878159, 878637, 879114, 879590, 880065, 880540, 881013, 881486,
    881958, 882429, 882899, 883368, 883836, 884303, 884770, 885235, 885700, 886164, 886627, 887089,
    887550, 888010, 888470, 888928, 889386, 889843, 890298, 890753, 891207, 891661, 892113, 892564,
    893015, 893464, 893913, 894361, 894808, 895254, 895699, 896143, 896586, 897029, 897470, 897911,
    898351, 898789, 899227, 899664, 900100, 900536, 900970, 901403, 901836, 902268, 902698, 903128,
    903557, 903985, 904412, 904838, 905264, 905688, 906112, 906534, 906956, 907377, 907796, 908215,
    908633, 909051, 909467, 909882, 910297, 910710, 911123, 911534, 911945, 912355, 912764, 913172,
    913579, 913985, 914391, 914795, 915198, 915601, 916003, 916403, 916803, 917202, 917600, 917997,
    918393, 918788, 919183, 919576, 919968, 920360, 920751, 921140, 921529, 921917, 922304, 922690,
    923075, 923459, 923842, 924225, 924606, 924986, 925366, 925745, 926122, 926499, 926875, 927250,
    927624, 927997, 928369, 928740, 929110, 929480, 929848, 930216, 930582, 930948, 931313, 931676,
    932039, 932401, 932762, 933122, 933481, 933839, 934196, 934553, 934908, 935263, 935616, 935969,
    936320, 936671, 937021, 937369, 937717, 938064, 938410, 938755, 939099, 939443, 939785, 940126,
    940466, 940806, 941144, 941482, 941818, 942154, 942489, 942823, 943155, 943487, 943818, 944148,
    944477, 944805, 945133, 945459, 945784, 946108, 946432, 946754, 947076, 947396, 947716, 948034,
    948352, 948669, 948985, 949299, 949613, 949926, 950238, 950549, 950859, 951169, 951477, 951784,
    952090, 952396, 952700, 953004, 953306, 953608, 953908, 954208, 954506, 954804, 955101, 955397,
    955692, 955985, 956278, 956570, 956861, 957151, 957441, 957729, 958016, 958302, 958587, 958872,
    959155, 959437, 959719, 959999, 960279, 960557, 960835, 961112, 961387, 961662, 961936, 962209,
    962480, 962751, 963021, 963290, 963558, 963825, 964091, 964356, 964620, 964884, 965146, 965407,
    965667, 965927, 966185, 966442, 966699, 966954, 967209, 967462, 967715, 967966, 968217, 968466,
    968715, 968963, 969210, 969455, 969700, 969944, 970187, 970429, 970669, 970909, 971148, 971386,
    971623, 971859, 972095, 972329, 972562, 972794, 973025, 973255, 973485, 973713, 973940, 974166,
    974392, 974616, 974840, 975062, 975283, 975504, 975723, 975942, 976159, 976376, 976592, 976806,
    977020, 977232, 977444, 977655, 977865, 978073, 978281, 978488, 978694, 978899, 979102, 979305,
    979507, 979708, 979908, 980107, 980305, 980502, 980698, 980893, 981087, 981280, 981472, 981663,
    981854, 982043, 982231, 982418, 982604, 982789, 982974, 983157, 983339, 983521, 983701, 983880,
    984058, 984236, 984412, 984588, 984762, 984935, 985108, 985279, 985450, 985619, 985788, 985955,
    986122, 986287, 986452, 986615, 986778, 986940, 987100, 987260, 987418, 987576, 987733, 987888,
    988043, 988197, 988349, 988501, 988652, 988801, 988950, 989098, 989245, 989391, 989535, 989679,
    989822, 989964, 990105, 990244, 990383, 990521, 990658, 990794, 990929, 991063, 991196, 991327,
    991458, 991588, 991717, 991845, 991972, 992098, 992223, 992347, 992470, 992592, 992713, 992833,
    992952, 993070, 993187, 993303, 993418, 993532, 993645, 993757, 993868, 993978, 994088, 994196,
    994303, 994409, 994514, 994618, 994721, 994823, 994924, 995024, 995124, 995222, 995319, 995415,
    995510, 995604, 995698, 995790, 995881, 995971, 996060, 996148, 996236, 996322, 996407, 996491,
    996574, 996657, 996738, 996818, 996897, 996975, 997053, 997129, 997204, 997278, 997352, 997424,
    997495, 997565, 997634, 997703, 997770, 997836, 997901, 997966, 998029, 998091, 998152, 998213,
    998272, 998330, 998388, 998444, 998499, 998553, 998607, 998659, 998710, 998760, 998810, 998858,
    998905, 998952, 998997, 999041, 999084, 999127, 999168, 999208, 999248, 999286, 999323, 999359,
    999395, 999429, 999462, 999495, 999526, 999556, 999585, 999614, 999641, 999667, 999693, 999717,
    999740, 999762, 999784, 999804, 999823, 999842, 999859, 999875, 999891, 999905, 999918, 999930,
    999942, 999952, 999961, 999970, 999977, 999983, 999988, 999993, 999996, 999998, 1000000, 1000000>>

\* Linear interpolation between T[i] and T[i + 1], f units of TableStep in.
Lerp(T, i, f) ==
  T[i] + ((T[i + 1] - T[i]) * f + TableStep \div 2) \div TableStep

\* sin of an angle in 0..HalfPi.
SinQuarter(t) == Lerp(SinTable, t \div TableStep + 1, t % TableStep)

\* The angle brought into -Pi+1..Pi.
RECURSIVE WrapAngle(_)
WrapAngle(t) ==
  IF t > Pi THEN WrapAngle(t - 2 * Pi)
  ELSE IF t <= -Pi THEN WrapAngle(t + 2 * Pi)
  ELSE t

\* sin of a wrapped angle w: sin(-w) = -sin(w), sin(Pi - w) = sin(w).
SinWrapped(w) ==
  Signed(w < 0,
         SinQuarter(Min(IF Abs(w) > HalfPi THEN Pi - Abs(w) ELSE Abs(w),
                        HalfPi)))

Sin(t) == SinWrapped(WrapAngle(t))

Cos(t) == Sin(t + HalfPi)

\* Whether the angle of (x, y) is at least t, for x, y >= 0 and t in
\* 0..HalfPi: x * sin(t) <= y * cos(t).
AngleAtLeast(t, y, x) ==
  t <= HalfPi /\ LeqProd(x, SinQuarter(t), y, SinQuarter(HalfPi - t))

\* The angle of (x, y) in the first quadrant, two bits at a time, as
\* SqrtSearch finds the root.
RECURSIVE AngleSearch(_, _, _, _)
AngleSearch(base, unit, y, x) ==
  IF unit = 0 THEN base
  ELSE AngleSearch(
         base + unit * Cardinality({ k \in 1..3 :
                                       AngleAtLeast(base + k * unit, y, x) }),
         unit \div 4, y, x)

AngleTopUnit == 1048576

\* The first-quadrant angle b of (|x|, |y|) carried to the quadrant of (x, y).
Quadrant(b, y, x) ==
  IF x >= 0 THEN Signed(y < 0, b) ELSE Signed(y < 0, Pi - b)

\* Math.atan2(y, x); atan2(0, 0) = 0.
Atan2(y, x) ==
  IF x = 0 /\ y = 0 THEN 0
  ELSE Quadrant(AngleSearch(0, AngleTopUnit, Abs(y), Abs(x)), y, x)

\* Math.atan(slope), the slope in units of 1/SlopeScale.
Atan(slope) == Atan2(slope, SlopeScale)

----------------------------------------------------------------------------
(* Faulty variants of operators below, which the properties at the end    *)
(* must tell from the operators themselves.                               *)

\* handleCollision that leaves the wheel where it is.
PassThrough(w) == w

\* Friction that doubles vx.
Boosted(vx) == vx + vx

\* applyGravity without gravity.
NoGravity(s, dt) == s

\* A downward velocity that survives the contact.
KeepDownward(vy) == vy

\* rotateBike that rotates nothing.
NoRotation(s, angle) == s


\* Segments that all start at one height.
NoRise(slope) == 0
----------------------------------------------------------------------------
(* Program constants *)

segmentLength == 400
NumSegments == 50
StartMargin == 80
wheelRadius == 20
wheelDistance == 60
StartX == 150
gravity == 1200
engineForce == 1000
brakeForce == -800
friction == 98
FrictionScale == 100
tiltStep == 60000
Epsilon == 1
MaxDt == 33
HeadingWeight == 8
SlopeWeight == 2
WeightScale == 10

Radius == wheelRadius * PosScale
BarLength == wheelDistance * PosScale

(* Bounds of the model *)

MaxSteps == 2
MaxEvents == 2
MaxDropSteps == 9
MaxInputEvents == 4
MaxClicks == 4

\* The draws of Math.random() in rndType, Math.floor(Math.random() * 6): the
\* game draws its gems from one of these cycles.
\* The second cycle has three equal draws in a row at its start, so a grid
\* filled from there has a match and is filled again.
StreamLength == 120
RandomStreams ==
  { << 3, 3, 4, 4, 5, 5 >>,
    [i \in 1..StreamLength |->
       IF i = 3 THEN 0 ELSE << 0, 0, 1, 1, 2, 2 >>[((i - 1) % 6) + 1]] }

\* The cells the player taps and starts swipes on.
TapCells == { << 0, 0 >>, << 1, 0 >>, << 0, 3 >>, << 1, 3 >>, << 6, 6 >> }

\* The draws of Math.random() for the slopes, (Math.random() - 0.5) * 0.4 in
\* [-0.2, 0.2): a track repeats one of these patterns of slopes.
SlopePatterns == { <<0>>, <<-200, 100>>, <<150, -50>> }

\* canvas.height / devicePixelRatio, in px.
CanvasHeights == { 600 }

\* The timestamps the host hands to update: the first one, and the time
\* elapsed between two ticks, in ms.
StartTimes == { 0, 1000 }
Deltas == { 0, 16, 40 }
BackDeltas == { 16, 500 }

\* The elapsed times of the drop on flat ground: all positive.
DropDeltas == { 16, 33 }

\* The x of a track query, in px: every segment boundary, points inside
\* segments, points before the first segment and beyond the last.
ProbePoints ==
  { i * segmentLength : i \in 0..NumSegments }
    \cup { 150, 210, 399, 401, 19999 }
    \cup { -1, -400, -100000, 20001, 20400, 100000 }

\* lastTime before the first tick (null).
Null == -1

VARIABLES
  track,      \* the segments, in order
  wheelA,     \* [x, y, vx, vy, m, nan]: nan when x and y are NaN
  wheelB,
  accelerate, brake, tiltLeft, tiltRight,
  lastTime,   \* Null before the first tick
  pending,    \* the number of requested animation frames not yet delivered
  steps,      \* completed calls of update
  events,     \* input events handled
  last,       \* what the last call of update did, phase by phase
  probe,      \* the last track query made from outside update, and its results
  inputsDown, \* the keys and buttons the player has down
  \* the match-3 game (game.js)
  grid,       \* the gem type of every cell <<r, c>>
  score,
  moves,
  selected,   \* a cell, or NoCell for null
  locked,
  pointerDown,
  startCell,  \* a cell, or NoCell for null
  waiting,    \* the move that is at an await, if any, and what it holds
  stream,     \* the values Math.random() hands out, in a cycle
  drawn,      \* the place in the stream
  gameNo,     \* the number of calls of newGame
  clicks,     \* pointer events and clicks handled
  hint        \* the swap the last Hint click found

bike == << track, wheelA, wheelB, accelerate, brake, tiltLeft, tiltRight,
           lastTime, pending, steps, events, last, probe, inputsDown >>

gems == << grid, score, moves, selected, locked, pointerDown, startCell,
           waiting, stream, drawn, gameNo, clicks, hint >>

vars == << track, wheelA, wheelB, accelerate, brake, tiltLeft, tiltRight,
           lastTime, pending, steps, events, last, probe, inputsDown, gems >>

\* The constants of the match-3 game.
SIZE == 7
NumTypes == 6
START_MOVES == 30
PopScore == 10

NoCell == << -1, -1 >>

NoHint == << NoCell, NoCell >>

\* No move is at an await.
Idle ==
  [kind |-> "idle", a |-> NoCell, b |-> NoCell, marks |-> {}, game |-> 0,
   grid |-> << >>, score |-> 0, moves |-> 0]

\* The declarations of game.js before its initialisation has run.
GemsDeclared ==
  /\ grid = << >>
  /\ score = 0
  /\ moves = START_MOVES
  /\ selected = NoCell
  /\ locked = FALSE
  /\ pointerDown = FALSE
  /\ startCell = NoCell
  /\ waiting = Idle
  /\ stream = << 0 >>
  /\ drawn = 0
  /\ gameNo = 0
  /\ clicks = 0
  /\ hint = NoHint

flags == << accelerate, brake, tiltLeft, tiltRight >>

----------------------------------------------------------------------------
(* Track generation and queries *)

PatternSlope(pat, i) == pat[((i - 1) % Len(pat)) + 1]

\* The rise of y over one segment: slope * segmentLength.
Rise(slope) == MulDiv(slope, segmentLength * PosScale, SlopeScale)

\* The rise over the first k segments of a pattern.
RECURSIVE PatternRise(_, _)
PatternRise(pat, k) ==
  IF k = 0 THEN 0 ELSE PatternRise(pat, k - 1) + Rise(pat[k])

\* y at the start of segment i: the loop of generateTrack adds
\* slope * segmentLength after each segment it pushes.
SegmentY(i, startY, pat) ==
  startY + ((i - 1) \div Len(pat)) * PatternRise(pat, Len(pat))
         + PatternRise(pat, (i - 1) % Len(pat))

generateTrack(height, pat) ==
  [ i \in 1..NumSegments |->
      [x |-> (i - 1) * segmentLength * PosScale,
       y |-> SegmentY(i, (height - StartMargin) * PosScale, pat),
       slope |-> PatternSlope(pat, i),
       length |-> segmentLength * PosScale] ]

\* The test of the two lookup loops: x >= seg.x && x <= seg.x + seg.length.
InSegment(seg, x) == x >= seg.x /\ x <= seg.x + seg.length

Least(S) == CHOOSE i \in S : \A j \in S : i <= j

\* The index a lookup loop returns from: the first segment that passes the
\* test, and the last segment when the loop finds none.
FirstOrLast(hits, n) == IF hits = {} THEN n ELSE Least(hits)

SegmentIndex(trk, x) ==
  FirstOrLast({ i \in 1..Len(trk) : InSegment(trk[i], x) }, Len(trk))

LineY(seg, x) == seg.y + MulDiv(seg.slope, x - seg.x, SlopeScale)

TrackYOn(trk, x) == LineY(trk[SegmentIndex(trk, x)], x)

TrackSlopeOn(trk, x) == trk[SegmentIndex(trk, x)].slope

getTrackY(x) == TrackYOn(track, x)

getTrackSlope(x) == TrackSlopeOn(track, x)

----------------------------------------------------------------------------
(* The bike *)

Wheel(x, y) == [x |-> x, y |-> y, vx |-> 0, vy |-> 0, m |-> 1, nan |-> FALSE]

\* A wheel whose x and y are NaN; vx and vy keep their numbers.
NaNWheel(w) == [w EXCEPT !.x = 0, !.y = 0, !.nan = TRUE]

WheelOnTrack(trk, x) == Wheel(x, TrackYOn(trk, x) - Radius)

InitWheelA(trk) == WheelOnTrack(trk, StartX * PosScale)

InitWheelB(trk) == WheelOnTrack(trk, (StartX + wheelDistance) * PosScale)

Bike(a, b) == [a |-> a, b |-> b]

HasNaN(s) == s.a.nan \/ s.b.nan

\* One wheel of rotateBike: (sx, sy) is twice the midpoint, so the offsets
\* dx2 = 2 * (w.x - cx) and dy2 are exact.
RotateOffset(w, sx, sy, dx2, dy2, cos, sin) ==
  [w EXCEPT
     !.x = (sx + MulDiv(dx2, cos, TrigScale) - MulDiv(dy2, sin, TrigScale))
             \div 2,
     !.y = (sy + MulDiv(dx2, sin, TrigScale) + MulDiv(dy2, cos, TrigScale))
             \div 2]

RotateWheel(w, sx, sy, cos, sin) ==
  RotateOffset(w, sx, sy, 2 * w.x - sx, 2 * w.y - sy, cos, sin)

RotateAbout(s, sx, sy, cos, sin) ==
  Bike(RotateWheel(s.a, sx, sy, cos, sin), RotateWheel(s.b, sx, sy, cos, sin))

\* rotateBike(angle) on the pair s of wheels.
rotateBike(s, angle) ==
  IF HasNaN(s) THEN Bike(NaNWheel(s.a), NaNWheel(s.b))
  ELSE RotateAbout(s, s.a.x + s.b.x, s.a.y + s.b.y, Cos(angle), Sin(angle))

Nudge(s, corrX, corrY) ==
  Bike([s.a EXCEPT !.x = @ + corrX, !.y = @ + corrY],
       [s.b EXCEPT !.x = @ - corrX, !.y = @ - corrY])

\* The body of enforceConstraint once dx, dy and dist are known.  With the
\* wheels at one point dist is 0 and dx / dist is 0 / 0: corrX and corrY
\* are NaN, and so are the four coordinates.
Correct(s, dx, dy, dist) ==
  IF Abs(dist - BarLength) > Epsilon
  THEN IF dist = 0
       THEN Bike(NaNWheel(s.a), NaNWheel(s.b))
       ELSE Nudge(s, MulDiv(dx, dist - BarLength, 2 * dist),
                     MulDiv(dy, dist - BarLength, 2 * dist))
  ELSE s

Distance(s) == Hypot(s.b.x - s.a.x, s.b.y - s.a.y)

\* enforceConstraint() on the pair of wheels.  Every comparison with NaN is
\* false, so wheels that are NaN stay as they are.
enforceConstraint(s) ==
  IF HasNaN(s) THEN s
  ELSE Correct(s, s.b.x - s.a.x, s.b.y - s.a.y, Distance(s))

\* Whether handleCollision(w) finds the wheel in the track.
Penetrates(w) == ~w.nan /\ w.y + Radius > getTrackY(w.x)

\* The new velocity: speed v along the direction `aligned`.
Redirect(w, v, aligned) ==
  [w EXCEPT !.vx = MulDiv(v, Cos(aligned), TrigScale),
            !.vy = MulDiv(v, Sin(aligned), TrigScale)]

\* dir * 0.8 + normalAngle * 0.2
Align(dir, normalAngle) ==
  MulDiv(dir, HeadingWeight, WeightScale)
    + MulDiv(normalAngle, SlopeWeight, WeightScale)

\* The wheel on the track, with vx and vy as the first statements of the
\* branch leave them (vy zeroed when downward, vx damped).
Follow(w, vx, vy, slope) ==
  Redirect(w, Hypot(vx, vy), Align(Atan2(vy, vx), Atan(slope)))

Damped(vx) == MulDiv(vx, friction, FrictionScale)

StopDownward(vy) == IF vy > 0 THEN 0 ELSE vy

handleCollision(w) ==
  IF Penetrates(w)
  THEN Follow([w EXCEPT !.y = getTrackY(w.x) - Radius],
              Damped(w.vx), StopDownward(w.vy), getTrackSlope(w.x))
  ELSE w

----------------------------------------------------------------------------
(* The phases of update *)

\* A velocity change of force * dt, in velocity units (dt in ms).
Impulse(force, dt) == (force * VelScale * dt) \div MsPerSecond

\* A displacement of v * dt, in position units (dt in ms): one velocity
\* unit for one ms is PosScale / (VelScale * MsPerSecond) = 1 position unit.
Displacement(v, dt) == v * dt * (PosScale \div (VelScale * MsPerSecond))

Push(s, dvx, dvy) ==
  Bike([s.a EXCEPT !.vx = @ + dvx, !.vy = @ + dvy],
       [s.b EXCEPT !.vx = @ + dvx, !.vy = @ + dvy])

applyGravity(s, dt) == Push(s, 0, Impulse(gravity, dt))

\* A faulty variant of applyControl, in which the engine shuts the brake out.
EngineShutsBrakeOut(s, dt, acc, brk) ==
  Push(s, IF acc THEN Impulse(engineForce, dt)
          ELSE IF brk THEN Impulse(brakeForce, dt) ELSE 0, 0)

applyControl(s, dt, acc, brk) ==
  Push(s, (IF acc THEN Impulse(engineForce, dt) ELSE 0)
            + (IF brk THEN Impulse(brakeForce, dt) ELSE 0), 0)

MoveWheel(w, dt) ==
  IF w.nan THEN w
  ELSE [w EXCEPT !.x = @ + Displacement(w.vx, dt),
                 !.y = @ + Displacement(w.vy, dt)]

integrate(s, dt) == Bike(MoveWheel(s.a, dt), MoveWheel(s.b, dt))

collide(s) == Bike(handleCollision(s.a), handleCollision(s.b))

TiltBy(s, on, angle) == IF on THEN rotateBike(s, angle) ELSE s

tilt(s, left, right) == TiltBy(TiltBy(s, left, -tiltStep), right, tiltStep)

\* The dt update computes for a tick at `time`: lastTime is replaced by
\* time when it is null or 0 (!lastTime), and only large values are capped.
Elapsed(time) == IF lastTime = Null \/ lastTime = 0 THEN 0 ELSE time - lastTime

ClampedDt(time) == Min(Elapsed(time), MaxDt)

NoProbe == [x |-> 0, y |-> 0, slope |-> 0, asked |-> FALSE]

Rest == Bike(Wheel(0, 0), Wheel(0, 0))

NoStep ==
  [pre |-> Rest, fell |-> Rest, forces |-> Rest, moved |-> Rest, bar |-> Rest,
   hit |-> Rest, post |-> Rest, time |-> 0, prevTime |-> Null, dt |-> 0,
   hitA |-> FALSE, hitB |-> FALSE,
   flags |-> <<FALSE, FALSE, FALSE, FALSE>>]

\* A faulty variant of FlagsOnlyRead: a step that uses up the drive flags.
FlagsUsedUp ==
  /\ accelerate' = FALSE
  /\ brake' = FALSE
  /\ UNCHANGED << tiltLeft, tiltRight >>

\* update reads the four flags and assigns none of them.
FlagsOnlyRead == UNCHANGED << accelerate, brake, tiltLeft, tiltRight >>

\* A faulty variant of requestAnimationFrame, which requests nothing.
NoRequest(frames) == frames

\* requestAnimationFrame(update): one more frame is pending.
requestAnimationFrame(frames) == frames + 1

\* update(time): s1 after gravity, s2 after the control forces, s3 after the
\* integration, s4 after enforceConstraint, s5 after the two calls of
\* handleCollision, s6 after the tilt; draw() changes nothing, and the
\* closing requestAnimationFrame(update) replaces the frame just delivered.
update(time) ==
  \E dt \in { ClampedDt(time) } :
  \E s1 \in { applyGravity(Bike(wheelA, wheelB), dt) } :
  \E s2 \in { applyControl(s1, dt, accelerate, brake) } :
  \E s3 \in { integrate(s2, dt) } :
  \E s4 \in { enforceConstraint(s3) } :
  \E s5 \in { collide(s4) } :
  \E s6 \in { tilt(s5, tiltLeft, tiltRight) } :
    /\ pending > 0
    /\ wheelA' = s6.a
    /\ wheelB' = s6.b
    /\ lastTime' = time
    /\ pending' = requestAnimationFrame(pending - 1)
    /\ steps' = steps + 1
    /\ last' = [pre |-> Bike(wheelA, wheelB), fell |-> s1, forces |-> s2,
                moved |-> s3,
                bar |-> s4, hit |-> s5, post |-> s6,
                time |-> time, prevTime |-> lastTime, dt |-> dt,
                hitA |-> Penetrates(s4.a), hitB |-> Penetrates(s4.b),
                flags |-> flags]
    /\ FlagsOnlyRead
    /\ UNCHANGED << track, events, probe, inputsDown, gems >>

----------------------------------------------------------------------------
(* Input events *)

KeyCodes == { "ArrowRight", "KeyD", "ArrowLeft", "KeyA", "ArrowDown", "KeyS",
              "ArrowUp", "KeyW", "Space" }

ButtonIds == { "btnAccelerate", "btnBrake", "btnTiltLeft", "btnTiltRight" }

\* An input handler's writes; which inputs are down is the player's doing
\* and is left to the event that calls the handler.
SetFlags(acc, brk, tl, tr) ==
  /\ events' = events + 1
  /\ accelerate' = acc
  /\ brake' = brk
  /\ tiltLeft' = tl
  /\ tiltRight' = tr
  /\ UNCHANGED << track, wheelA, wheelB, lastTime, pending, steps, last,
                  probe, gems >>

\* The switch of onKeyDown (value TRUE) and onKeyUp (value FALSE); a code
\* outside the cases changes nothing.
KeySets(code, value) ==
  SetFlags(IF code \in {"ArrowRight", "KeyD"} THEN value ELSE accelerate,
           IF code \in {"ArrowLeft", "KeyA"} THEN value ELSE brake,
           IF code \in {"ArrowDown", "KeyS"} THEN value ELSE tiltLeft,
           IF code \in {"ArrowUp", "KeyW"} THEN value ELSE tiltRight)

onKeyDown(code) == KeySets(code, TRUE)

onKeyUp(code) == KeySets(code, FALSE)

\* The onPress (value TRUE) and onRelease (value FALSE) of setupButton.
ButtonSets(id, value) ==
  SetFlags(IF id = "btnAccelerate" THEN value ELSE accelerate,
           IF id = "btnBrake" THEN value ELSE brake,
           IF id = "btnTiltLeft" THEN value ELSE tiltLeft,
           IF id = "btnTiltRight" THEN value ELSE tiltRight)

onPress(id) == ButtonSets(id, TRUE)

onRelease(id) == ButtonSets(id, FALSE)

----------------------------------------------------------------------------
(* The program under the host's event loop *)

Init ==
  /\ \E pat \in SlopePatterns, h \in CanvasHeights :
       track = generateTrack(h, pat)
  /\ wheelA = InitWheelA(track)
  /\ wheelB = InitWheelB(track)
  /\ accelerate = FALSE
  /\ brake = FALSE
  /\ tiltLeft = FALSE
  /\ tiltRight = FALSE
  /\ lastTime = Null
  /\ pending = 1
  /\ steps = 0
  /\ events = 0
  /\ last = NoStep
  /\ probe = NoProbe
  /\ inputsDown = {}
  /\ GemsDeclared

\* requestAnimationFrame hands update timestamps that never decrease.
HostTimes ==
  IF lastTime = Null THEN StartTimes ELSE { lastTime + d : d \in Deltas }

\* Timestamps before the previous one, for a caller other than the host.
EarlierTimes ==
  IF lastTime = Null THEN {}
  ELSE { t \in { lastTime - d : d \in BackDeltas } : t >= 0 }

Tick == steps < MaxSteps /\ \E time \in HostTimes : update(time)

TickBack == steps < MaxSteps /\ \E time \in EarlierTimes : update(time)

\* Input events between the steps, whatever the player has down.
Handled(n) == events < n /\ UNCHANGED inputsDown

KeyDown == Handled(MaxEvents) /\ \E code \in KeyCodes : onKeyDown(code)

KeyUp == Handled(MaxEvents) /\ \E code \in KeyCodes : onKeyUp(code)

Press == Handled(MaxEvents) /\ \E id \in ButtonIds : onPress(id)

Release == Handled(MaxEvents) /\ \E id \in ButtonIds : onRelease(id)

Next == Tick \/ KeyDown \/ KeyUp \/ Press \/ Release

Spec == Init /\ [][Next]_vars

NextAnyTime == Next \/ TickBack

SpecAnyTime == Init /\ [][NextAnyTime]_vars

----------------------------------------------------------------------------
(* Track queries on their own *)

\* getTrackY(x) and getTrackSlope(x) asked for a point x.
Probe ==
  \E px \in ProbePoints :
    /\ probe' = [x |-> px * PosScale, y |-> getTrackY(px * PosScale),
                 slope |-> getTrackSlope(px * PosScale), asked |-> TRUE]
    /\ UNCHANGED << track, wheelA, wheelB, accelerate, brake, tiltLeft,
                    tiltRight, lastTime, pending, steps, events, last,
                    inputsDown, gems >>

SpecTrack == Init /\ [][Probe]_vars

----------------------------------------------------------------------------
(* The step from a drawn configuration *)

\* A wheel above (lift > 0) or below (lift < 0) its place on the track, with
\* velocity v = <<vx, vy>>.
PlaceWheel(trk, x, lift, v) ==
  [WheelOnTrack(trk, x * PosScale) EXCEPT
     !.y = @ - lift * PosScale, !.vx = v[1], !.vy = v[2]]

\* Configurations of the bike: where the wheels are (x in px, lift in px)
\* and how they move (0.1 px/s).  The first is the program's own start.
Placements ==
  { [ax |-> 150, bx |-> 210, lift |-> 0,  va |-> <<0, 0>>,
                                          vb |-> <<0, 0>>],
    [ax |-> 150, bx |-> 210, lift |-> 0,  va |-> <<2000, 0>>,
                                          vb |-> <<2000, 0>>],
    [ax |-> 150, bx |-> 210, lift |-> 0,  va |-> <<-2000, 300>>,
                                          vb |-> <<-2000, 300>>],
    [ax |-> 150, bx |-> 210, lift |-> -5, va |-> <<100, -1000>>,
                                          vb |-> <<100, -1000>>],
    [ax |-> 150, bx |-> 210, lift |-> 50, va |-> <<0, 0>>,
                                          vb |-> <<0, 0>>],
    [ax |-> 150, bx |-> 210, lift |-> 50, va |-> <<0, 0>>,
                                          vb |-> <<0, 1000>>] }

\* Both wheels at one point.
CoincidentPlacements ==
  { [ax |-> x, bx |-> x, lift |-> h, va |-> v, vb |-> v] :
      x \in { 150, 400 }, h \in { 0, 50 },
      v \in { <<0, 0>>, <<2000, 0>>, <<0, -1000>> } }

\* The bike at rest above flat ground.
DropPlacements ==
  { [ax |-> 150, bx |-> 210, lift |-> h, va |-> <<0, 0>>, vb |-> <<0, 0>>] :
      h \in { 0, 1, 2, 3 } }

FlagSets == { f \in [1..4 -> BOOLEAN] : TRUE }

NoFlagsHeld == { <<FALSE, FALSE, FALSE, FALSE>> }

\* The state update starts from when the bike is in one of the given
\* configurations with one of the given sets of flags held.
InitFrom(patterns, placements, held) ==
  /\ \E pat \in patterns, h \in CanvasHeights, p \in placements :
       /\ track = generateTrack(h, pat)
       /\ wheelA = PlaceWheel(track, p.ax, p.lift, p.va)
       /\ wheelB = PlaceWheel(track, p.bx, p.lift, p.vb)
  /\ \E f \in held :
       /\ accelerate = f[1]
       /\ brake = f[2]
       /\ tiltLeft = f[3]
       /\ tiltRight = f[4]
  /\ lastTime = Null
  /\ pending = 1
  /\ steps = 0
  /\ events = 0
  /\ last = NoStep
  /\ probe = NoProbe
  /\ inputsDown = {}
  /\ GemsDeclared

InitPlaced == InitFrom(SlopePatterns, Placements, FlagSets)

SpecPlaced == InitPlaced /\ [][Tick]_vars

\* The loop of update on its own, with the flags held one way throughout.
LoopFlags ==
  { << FALSE, FALSE, FALSE, FALSE >>, << TRUE, FALSE, TRUE, FALSE >>,
    << FALSE, TRUE, FALSE, TRUE >>, << TRUE, TRUE, TRUE, TRUE >> }

InitLoop == InitFrom(SlopePatterns, Placements, LoopFlags)

SpecLoop == InitLoop /\ [][Tick]_vars

InitCoincident == InitFrom(SlopePatterns, CoincidentPlacements, FlagSets)

SpecCoincident == InitCoincident /\ [][Tick]_vars

\* The drop on flat ground: no flag is ever set, and every tick after the
\* first carries a later timestamp.
InitDrop == InitFrom({ <<0>> }, DropPlacements, NoFlagsHeld)

DropTimes ==
  IF lastTime = Null THEN StartTimes ELSE { lastTime + d : d \in DropDeltas }

DropTick == steps < MaxDropSteps /\ \E time \in DropTimes : update(time)

\* What every DropTick does to the count of steps.  A frame is always
\* pending (update requests the next one before it returns), so the host
\* keeps delivering ticks: a tick that is due is eventually delivered.
\* DropTick is enabled exactly when TickDelivered is, and the only steps of
\* SpecDrop that deliver a tick are DropTick steps.
TickDelivered == steps < MaxDropSteps /\ steps' = steps + 1

SpecDrop == InitDrop /\ [][DropTick]_vars /\ WF_steps(TickDelivered)


----------------------------------------------------------------------------
(* The input handlers under the player's keys and buttons *)

\* The inputs of the controls table, action by action (the flags in the
\* order of `flags`).
BoundInputs ==
  << { "ArrowRight", "KeyD", "btnAccelerate" },
     { "ArrowLeft", "KeyA", "btnBrake" },
     { "ArrowDown", "KeyS", "btnTiltLeft" },
     { "ArrowUp", "KeyW", "btnTiltRight" } >>

\* A key goes down (or repeats while it is down): keydown.
HoldKey ==
  /\ events < MaxInputEvents
  /\ \E code \in KeyCodes : onKeyDown(code) /\ inputsDown' = inputsDown \cup { code }

\* A key that is down comes up: keyup.
LetGoKey ==
  /\ events < MaxInputEvents
  /\ \E code \in inputsDown \cap KeyCodes :
       onKeyUp(code) /\ inputsDown' = inputsDown \ { code }

\* A button is pressed: mousedown or touchstart.
HoldButton ==
  /\ events < MaxInputEvents
  /\ \E id \in ButtonIds \ inputsDown : onPress(id) /\ inputsDown' = inputsDown \cup { id }

\* A button that is pressed is let go: mouseup, touchend, touchcancel, or
\* mouseleave with the button down.
LetGoButton ==
  /\ events < MaxInputEvents
  /\ \E id \in inputsDown \cap ButtonIds :
       onRelease(id) /\ inputsDown' = inputsDown \ { id }

\* The pointer leaves a button that is not pressed: mouseleave.
PointerLeaves ==
  /\ events < MaxInputEvents
  /\ \E id \in ButtonIds \ inputsDown : onRelease(id) /\ inputsDown' = inputsDown

NextInput ==
  HoldKey \/ LetGoKey \/ HoldButton \/ LetGoButton \/ PointerLeaves

SpecInput == Init /\ [][NextInput]_vars

----------------------------------------------------------------------------
(* The match-3 game: the board *)

Rows == 0..(SIZE - 1)

Cells == Rows \X Rows

inBounds(cell) == cell[1] \in Rows /\ cell[2] \in Rows

\* The order in which findAnyHint tries the directions.
Dirs == << << 0, 1 >>, << 1, 0 >>, << 0, -1 >>, << -1, 0 >> >>

Toward(cell, dir) == << cell[1] + dir[1], cell[2] + dir[2] >>

swap(g, a, b) == [g EXCEPT ![a] = g[b], ![b] = g[a]]

neighbors(a, b) == Abs(a[1] - b[1]) + Abs(a[2] - b[2]) = 1

\* Three cells in a row or in a column: every run of three or more is a
\* union of these.
Windows ==
  { { << r, c >>, << r, c + 1 >>, << r, c + 2 >> } :
      r \in Rows, c \in 0..(SIZE - 3) }
    \cup { { << r, c >>, << r + 1, c >>, << r + 2, c >> } :
             r \in 0..(SIZE - 3), c \in Rows }

Same(g, w) == \A x \in w, y \in w : g[x] = g[y]

\* findMatches().marks, as the set of the marked cells.
findMatches(g) == UNION { w \in Windows : Same(g, w) }

\* findMatches().any
AnyMatch(g) == \E w \in Windows : Same(g, w)

\* rndType(): the k-th draw from place d of the stream.
rndType(d, k) == stream[((d + k) % Len(stream)) + 1]

\* Array.from({length: SIZE}, () => Array.from({length: SIZE}, rndType)) with
\* the draws from place d on: row by row, each row from left to right.
Filled(d) == [cell \in Cells |-> rndType(d, cell[1] * SIZE + cell[2])]

\* The place of the stream from which the first fill without a match is
\* drawn: the loops of newGame and of the initialisation fill again while
\* findMatches().any.
RECURSIVE FirstClean(_)
FirstClean(d) ==
  IF AnyMatch(Filled(d)) THEN FirstClean((d + SIZE * SIZE) % Len(stream))
  ELSE d

\* The rows of column c that keep their gem, and the marked cells of the
\* columns before c and of c itself.
Kept(marks, c) == { r \in Rows : << r, c >> \notin marks }

PoppedBefore(marks, c) == Cardinality({ m \in marks : m[2] < c })

PoppedIn(marks, c) == Cardinality({ m \in marks : m[2] = c })

\* The row the gem that lands in row r of its column came from: as many
\* kept gems lie below it as there are rows below r.
CameFrom(kept, r) ==
  CHOOSE s \in kept : Cardinality({ t \in kept : t > s }) = SIZE - 1 - r

\* The remove and gravity passes of resolveBoard: the marked cells are
\* emptied, each column falls, and its top n cells are drawn anew from the
\* bottom one of them up, column after column.
FallenCell(g, marks, d, r, c, n) ==
  IF r < n THEN rndType(d, PoppedBefore(marks, c) + (n - 1 - r))
  ELSE g[<< CameFrom(Kept(marks, c), r), c >>]

Collapse(g, marks, d) ==
  [cell \in Cells |->
     FallenCell(g, marks, d, cell[1], cell[2], PoppedIn(marks, cell[2]))]

\* findAnyHint: the first swap, in the order of its loops, that makes a
\* match; NoHint for null.
HintAt(k) ==
  << << k \div (4 * SIZE), (k \div 4) % SIZE >>,
     Toward(<< k \div (4 * SIZE), (k \div 4) % SIZE >>, Dirs[(k % 4) + 1]) >>

Helps(g, h) == inBounds(h[2]) /\ AnyMatch(swap(g, h[1], h[2]))

FirstHint(found) == IF found = {} THEN NoHint ELSE HintAt(Least(found))

findAnyHint(g) ==
  FirstHint({ k \in 0..(4 * SIZE * SIZE - 1) : Helps(g, HintAt(k)) })

----------------------------------------------------------------------------
(* The match-3 game: moves, input handlers and timed waits *)

\* The texts of the hint line that are not a hint.
OutOfMoves == << << -2, -2 >>, << -2, -2 >> >>

NoMoveFound == << << -3, -3 >>, << -3, -3 >> >>

GameOver == << << -4, -4 >>, << -4, -4 >> >>

\* What a move holds while it is at an await of the given kind; with it,
\* the game it was made in and the grid, score and moves it found.
Held(kind, a, b, marks) ==
  [kind |-> kind, a |-> a, b |-> b, marks |-> marks, game |-> gameNo,
   grid |-> grid, score |-> score, moves |-> moves]

\* tryMove(a, b) after its two guards, with g the grid after swap(a, b),
\* up to its first await: wait(90) before the rollback or, through
\* resolveBoard, wait(140) with the first matches marked.
StartMove(a, b, g, marks) ==
  /\ grid' = g
  /\ locked' = TRUE
  /\ moves' = IF marks = {} THEN moves ELSE moves - 1
  /\ score' = score + Cardinality(marks) * PopScore
  /\ waiting' = Held(IF marks = {} THEN "rollback" ELSE "pop", a, b, marks)
  /\ hint' = NoHint

tryMove(a, b) ==
  IF locked THEN UNCHANGED << grid, locked, moves, score, waiting, hint >>
  ELSE IF moves <= 0
    THEN hint' = OutOfMoves
           /\ UNCHANGED << grid, locked, moves, score, waiting >>
  ELSE \E g \in { swap(grid, a, b) } : StartMove(a, b, g, findMatches(g))

\* A pointer event or a click other than Restart is handled.
Handle == clicks' = clicks + 1 /\ UNCHANGED << stream, gameNo, bike >>

onCellTap(cell) ==
  /\ Handle
  /\ UNCHANGED << pointerDown, startCell, drawn >>
  /\ IF locked \/ selected = NoCell \/ selected = cell
          \/ ~neighbors(selected, cell)
       THEN /\ selected' = IF locked THEN selected
                           ELSE IF selected = cell THEN NoCell ELSE cell
            /\ UNCHANGED << grid, locked, moves, score, waiting, hint >>
       ELSE tryMove(selected, cell) /\ UNCHANGED selected

onPointerDown(cell) ==
  /\ Handle
  /\ UNCHANGED << grid, locked, moves, score, waiting, hint, drawn >>
  /\ IF locked THEN UNCHANGED << pointerDown, startCell, selected >>
     ELSE pointerDown' = TRUE /\ startCell' = cell /\ selected' = cell

\* pointermove by 18 px or more, mostly in direction dir.
onPointerMove(dir) ==
  /\ Handle
  /\ UNCHANGED << startCell, selected, drawn >>
  /\ IF ~pointerDown \/ locked \/ startCell = NoCell
       THEN UNCHANGED << pointerDown, grid, locked, moves, score, waiting,
                         hint >>
       ELSE /\ pointerDown' = FALSE
            /\ IF inBounds(Toward(startCell, dir))
                 THEN tryMove(startCell, Toward(startCell, dir))
                 ELSE UNCHANGED << grid, locked, moves, score, waiting,
                                   hint >>

\* pointerup and pointercancel.
onPointerUp ==
  /\ Handle
  /\ pointerDown' = FALSE
  /\ startCell' = NoCell
  /\ UNCHANGED << grid, locked, moves, score, waiting, hint, selected,
                  drawn >>

\* The click handler of btnHint.
onHint ==
  /\ Handle
  /\ \E h \in { findAnyHint(grid) } :
       hint' = IF h = NoHint THEN NoMoveFound ELSE h
  /\ UNCHANGED << grid, locked, moves, score, waiting, selected,
                  pointerDown, startCell, drawn >>

\* newGame(), with d the place of the stream its grid is drawn from.
newGame(d) ==
  /\ score' = 0
  /\ moves' = START_MOVES
  /\ selected' = NoCell
  /\ hint' = NoHint
  /\ grid' = Filled(d)
  /\ drawn' = (d + SIZE * SIZE) % Len(stream)
  /\ gameNo' = gameNo + 1
  /\ clicks' = clicks + 1
  /\ UNCHANGED << locked, waiting, pointerDown, startCell, stream, bike >>

\* The move at wait(90) goes on: the rollback.
RollBack ==
  /\ grid' = swap(grid, waiting.a, waiting.b)
  /\ selected' = NoCell
  /\ locked' = FALSE
  /\ waiting' = Idle
  /\ UNCHANGED << score, moves, hint, drawn >>

\* The move at wait(140) goes on: remove, gravity, render, wait(80).
Pop ==
  /\ grid' = Collapse(grid, waiting.marks, drawn)
  /\ drawn' = (drawn + Cardinality(waiting.marks)) % Len(stream)
  /\ waiting' = [waiting EXCEPT !.kind = "settle"]
  /\ UNCHANGED << score, moves, hint, selected, locked >>

\* The move at wait(80) goes on: the next round of resolveBoard, up to
\* wait(140), or with no match left the end of tryMove.
Settle(marks) ==
  /\ score' = score + Cardinality(marks) * PopScore
  /\ waiting' = IF marks = {} THEN Idle
                ELSE [waiting EXCEPT !.kind = "pop", !.marks = marks]
  /\ locked' = (marks # {})
  /\ selected' = IF marks = {} THEN NoCell ELSE selected
  /\ hint' = IF marks = {} /\ moves <= 0 THEN GameOver ELSE hint
  /\ UNCHANGED << grid, moves, drawn >>

Resume ==
  /\ UNCHANGED << pointerDown, startCell, stream, gameNo, clicks, bike >>
  /\ CASE waiting.kind = "rollback" -> RollBack
       [] waiting.kind = "pop" -> Pop
       [] waiting.kind = "settle" -> Settle(findMatches(grid))

----------------------------------------------------------------------------
(* The match-3 game under the host's event loop *)

\* script.js is not part of the page of the match-3 game.
BikeAbsent ==
  /\ track = << >>
  /\ wheelA = Wheel(0, 0)
  /\ wheelB = Wheel(0, 0)
  /\ accelerate = FALSE
  /\ brake = FALSE
  /\ tiltLeft = FALSE
  /\ tiltRight = FALSE
  /\ lastTime = Null
  /\ pending = 0
  /\ steps = 0
  /\ events = 0
  /\ last = NoStep
  /\ probe = NoProbe
  /\ inputsDown = {}

\* The state after the initialisation at the end of game.js.
InitGems ==
  /\ BikeAbsent
  /\ stream \in RandomStreams
  /\ \E d \in { FirstClean(0) } :
       grid = Filled(d) /\ drawn = (d + SIZE * SIZE) % Len(stream)
  /\ score = 0
  /\ moves = START_MOVES
  /\ selected = NoCell
  /\ locked = FALSE
  /\ pointerDown = FALSE
  /\ startCell = NoCell
  /\ waiting = Idle
  /\ gameNo = 0
  /\ clicks = 0
  /\ hint = NoHint

Tap == clicks < MaxClicks /\ \E cell \in TapCells : onCellTap(cell)

PointerDown == clicks < MaxClicks /\ \E cell \in TapCells : onPointerDown(cell)

PointerMove == clicks < MaxClicks /\ \E i \in 1..4 : onPointerMove(Dirs[i])

PointerUp == clicks < MaxClicks /\ onPointerUp

Hint == clicks < MaxClicks /\ onHint

Restart == clicks < MaxClicks /\ newGame(FirstClean(drawn))

\* A timer of wait() runs out.
TimerFires == waiting.kind # "idle" /\ Resume

NextGems ==
  Tap \/ PointerDown \/ PointerMove \/ PointerUp \/ Hint \/ Restart
    \/ TimerFires

SpecGems == InitGems /\ [][NextGems]_vars
----------------------------------------------------------------------------
(* Properties.  `last` holds the phases of the latest call of update, so a *)
(* statement about a step is a statement about a state.                    *)

\* Rounding allowed when positions (1e-4 px) and angles (1e-6 rad) that are
\* equal in exact arithmetic are compared.
RoundTolerance == 3
AngleTolerance == 10

Now == Bike(wheelA, wheelB)

Stepped == steps > 0

NoneHeld == <<FALSE, FALSE, FALSE, FALSE>>

Tilted == last.flags[3] \/ last.flags[4]

Driven == last.flags[1] \/ last.flags[2]

\* wheel.y + wheelRadius <= getTrackY(wheel.x)
Clear(w) == ~w.nan /\ w.y + Radius <= getTrackY(w.x)

\* No call of handleCollision found its wheel in the track.
Airborne == Stepped /\ ~last.hitA /\ ~last.hitB

\* C1: after every completed step, whatever the elapsed time and the flags,
\* the distance between the centres of the wheels differs from wheelDistance
\* by less than epsilon.
C1_BarLengthKept == Stepped => Abs(Distance(Now) - BarLength) <= Epsilon

\* C2, as stated: at the end of every completed step neither wheel is in the
\* terrain, steps that tilt included.
C2_NeverInTerrain == Stepped => Clear(wheelA) /\ Clear(wheelB)

\* C2, amended: at the end of every completed step in which neither tilt
\* flag was set, neither wheel is in the terrain.
C2_ClearWithoutTilt == Stepped /\ ~Tilted => Clear(wheelA) /\ Clear(wheelB)

\* A step without tilt in which both wheels were put back on the track.
C2_BothPutBack == Stepped /\ ~Tilted /\ last.hitA /\ last.hitB

\* C3: with the wheels at one point the constraint never makes a wheel
\* coordinate NaN, in that step or later.
C3_CoordinatesStayFinite == ~wheelA.nan /\ ~wheelB.nan

\* C4: a step whose timestamp is earlier than the previous one applies a dt
\* of zero: gravity, control forces and integration change no position and
\* no velocity.
C4_EarlierTimestampAppliesNothing ==
  Stepped /\ last.prevTime # Null /\ last.time < last.prevTime
    => last.dt = 0 /\ last.moved = last.pre

\* C5: for x inside the track, getTrackSlope(x) is the slope of the segment
\* with x0 <= x < x0 + length; at an interior boundary that is the segment
\* that starts at x.
C5_SlopeOfHalfOpenSegment ==
  probe.asked =>
    \A i \in 1..NumSegments :
      track[i].x <= probe.x /\ probe.x < track[i].x + track[i].length
        => probe.slope = track[i].slope

\* C6: for x outside the track, getTrackY(x) and getTrackSlope(x) use the
\* line of the nearest boundary segment: the first segment before the
\* track, the last segment beyond it.
C6_NearestBoundaryLine ==
  probe.asked =>
    /\ probe.x < track[1].x
         => probe.y = LineY(track[1], probe.x)
            /\ probe.slope = track[1].slope
    /\ probe.x > track[NumSegments].x + track[NumSegments].length
         => probe.y = LineY(track[NumSegments], probe.x)
            /\ probe.slope = track[NumSegments].slope

\* Whether wheel k ("a" or "b") was in the track when handleCollision ran.
Hit(k) == IF k = "a" THEN last.hitA ELSE last.hitB

\* C7, as stated: in a step without accelerate and brake in which a wheel
\* is in contact, |vx| of the wheel does not grow, whatever its velocity.
C7_ContactNeverGainsSpeed ==
  Stepped /\ ~Driven =>
    \A k \in {"a", "b"} :
      Hit(k) => Abs(last.post[k].vx) <= Abs(last.pre[k].vx)

\* C7, amended: in a step without accelerate and brake in which a wheel is
\* in contact and is not moving upward when handleCollision runs, |vx| of
\* the wheel does not grow.
C7_ContactDampsUnlessRising ==
  Stepped /\ ~Driven =>
    \A k \in {"a", "b"} :
      Hit(k) /\ last.bar[k].vy >= 0
        => Abs(last.post[k].vx) <= Abs(last.pre[k].vx)

\* A moving wheel in contact, not rising, that the step slowed down.
C7_SlowedOnContact ==
  Stepped /\ ~Driven /\ last.hitA /\ last.bar.a.vy >= 0
    /\ Abs(last.post.a.vx) < Abs(last.pre.a.vx)

\* C8, as stated: in a step in which no wheel touches the ground and no
\* flag is set, each wheel's vy ends strictly greater than it began, for
\* every timestamp the host delivers.
C8_FallsFasterEveryStep ==
  Airborne /\ last.flags = NoneHeld =>
    \A k \in {"a", "b"} : last.post[k].vy > last.pre[k].vy

\* C8, amended: in such a step each wheel's vy ends strictly greater than
\* it began when the elapsed time the step applies is positive, and
\* unchanged when it is zero (the first tick, a repeated timestamp).
C8_FallsFasterWhenTimePasses ==
  Airborne /\ last.flags = NoneHeld =>
    \A k \in {"a", "b"} :
      /\ last.dt > 0 => last.post[k].vy > last.pre[k].vy
      /\ last.dt = 0 => last.post[k].vy = last.pre[k].vy

\* An airborne step without flags that applied a positive elapsed time.
C8_FellForAWhile == Airborne /\ last.flags = NoneHeld /\ last.dt > 0

\* Each wheel rests on the surface: y = H - wheelRadius, vy = 0, vx = 0.
Settled ==
  \A w \in {wheelA, wheelB} :
    ~w.nan /\ w.y = getTrackY(w.x) - Radius /\ w.vy = 0 /\ w.vx = 0

\* C9: on flat terrain, with no flag ever set and the wheels starting at
\* rest above the surface, under ticks of positive elapsed time, a step
\* eventually ends with each wheel settled, and so does every later step.
C9_SettlesForGood == <>[]Settled

\* A step that began with wheel A above the surface and ended settled.
C9_LandedFromAbove ==
  Stepped /\ Settled /\ last.pre.a.y + Radius < getTrackY(last.pre.a.x)

\* The angle of the bar from wheel A to wheel B.
BarAngle(s) == Atan2(s.b.y - s.a.y, s.b.x - s.a.x)

\* The rotation the flags of a step ask for.
NetTilt(f) ==
  (IF f[3] THEN -tiltStep ELSE 0) + (IF f[4] THEN tiltStep ELSE 0)

Turned(s, t) == WrapAngle(BarAngle(t) - BarAngle(s))

\* C10, as stated, the consequence: a step with one tilt flag held and both
\* wheels airborne changes the inter-wheel angle by tiltStep.
C10_AirborneTiltTurnsByTiltStep ==
  Airborne /\ last.flags[3] # last.flags[4] =>
    Abs(Turned(last.pre, last.post) - NetTilt(last.flags)) <= AngleTolerance

\* C10, amended: the tilt of a step (rotateBike once, twice or not at all)
\* keeps the midpoint of the wheels, the distance between them and their
\* velocities, and turns the bar by the sum of the angles asked for, from
\* where the collision phase left it: by zero with both flags set.
C10_TiltRotatesInPlace ==
  Stepped =>
    /\ Abs((last.post.a.x + last.post.b.x) - (last.hit.a.x + last.hit.b.x))
         <= RoundTolerance
    /\ Abs((last.post.a.y + last.post.b.y) - (last.hit.a.y + last.hit.b.y))
         <= RoundTolerance
    /\ Abs(Distance(last.post) - Distance(last.hit)) <= RoundTolerance
    /\ \A k \in {"a", "b"} :
         last.post[k].vx = last.hit[k].vx /\ last.post[k].vy = last.hit[k].vy
    /\ Abs(Turned(last.hit, last.post) - NetTilt(last.flags))
         <= AngleTolerance

\* A step that tilted one way and moved the wheels.
C10_TiltedOneWay ==
  Stepped /\ last.flags[3] # last.flags[4] /\ last.post # last.hit


Down(i) == BoundInputs[i] \cap inputsDown # {}

\* C11: the flag of an action is true while one of the action's inputs is
\* down and false when all of them are up, whatever the order of the
\* keydown, keyup, press and release events.
C11_FlagFollowsHeldInputs == \A i \in 1..4 : flags[i] = Down(i)

End(seg) == seg.x + seg.length

\* Segment i ends where segment i + 1 starts, in x and in height.
Joined(i) ==
  /\ track[i + 1].x = End(track[i])
  /\ track[i + 1].y = LineY(track[i], End(track[i]))
  /\ LineY(track[i + 1], End(track[i])) = LineY(track[i], End(track[i]))

Contiguous ==
  /\ Len(track) = NumSegments
  /\ track[1].x = 0
  /\ \A i \in 1..(NumSegments - 1) : Joined(i)

\* C12: the track starts at x = 0, each segment starts where the one before
\* it ends, in x and in height, so both segments give the same height at
\* their boundary; and no step or input event changes the track.
C12_TrackContinuousAndFixed == []Contiguous /\ [][track' = track]_vars

\* A sloped track after a step and an input event.
C12_SlopedTrackInUse ==
  steps > 0 /\ events > 0 /\ track[1].slope # track[2].slope

\* The force the flags of the latest step call for, in px/s^2.
ControlForce ==
  (IF last.flags[1] THEN engineForce ELSE 0)
    + (IF last.flags[2] THEN brakeForce ELSE 0)

\* The control phase gave the wheel force * dt of vx and nothing else.
Controlled(before, after) ==
  /\ (after.vx - before.vx) * MsPerSecond = ControlForce * VelScale * last.dt
  /\ after.vy = before.vy
  /\ after.x = before.x
  /\ after.y = before.y

\* C13: the control phase adds (engineForce if accelerate is set, plus
\* brakeForce if brake is set) * dt to the vx of each wheel, 200 * dt when
\* both are set and nothing when neither is, and leaves vy and the positions
\* alone.
C13_ControlIsAdditive ==
  Stepped =>
    Controlled(last.fell.a, last.forces.a)
      /\ Controlled(last.fell.b, last.forces.b)

\* A step over some time with accelerate and brake both set.
C13_BothForcesApplied ==
  Stepped /\ last.dt > 0 /\ last.flags[1] /\ last.flags[2]
    /\ last.forces.a.vx # last.fell.a.vx

\* C14: the dt of a step is the time since the previous tick, capped at
\* 0.033 s, and the dt of the first tick is 0.
C14_DtIsCappedElapsedTime ==
  Stepped =>
    /\ last.dt <= MaxDt
    /\ last.dt = IF last.prevTime = Null THEN 0
                 ELSE Min(last.time - last.prevTime, MaxDt)

\* The phases of the latest step, each applied to what the one before it
\* left: gravity, control forces, integration, constraint, collision of
\* wheelA and of wheelB, tilt.
PhasesInOrder ==
  /\ last.fell = applyGravity(last.pre, last.dt)
  /\ last.forces = applyControl(last.fell, last.dt, last.flags[1],
                                last.flags[2])
  /\ last.moved = integrate(last.forces, last.dt)
  /\ last.bar = enforceConstraint(last.moved)
  /\ last.hit = Bike(handleCollision(last.bar.a), handleCollision(last.bar.b))
  /\ last.post = tilt(last.hit, last.flags[3], last.flags[4])
  /\ Now = last.post

\* C15: a step runs gravity, control forces, integration, constraint,
\* collision of wheelA then wheelB and tilt in this order and then requests
\* one tick, so exactly one tick is pending in every state: never two, never
\* none.
C15_OrderedStepOneTickPending == pending = 1 /\ (Stepped => PhasesInOrder)

\* A step in which every phase acted: time passed, a control force and a
\* tilt were applied, and a wheel was put back on the track.
C15_FullStepDone ==
  Stepped /\ last.dt > 0 /\ Driven /\ Tilted /\ (last.hitA \/ last.hitB)
    /\ pending = 1

\* What a step (steps changes) does with the flags and the track: it leaves
\* them as they were, and its control phase and its tilt both go by the
\* values the flags had when it started.
StepReadsFlags ==
  /\ flags' = flags
  /\ track' = track
  /\ last'.flags = flags
  /\ ~accelerate /\ ~brake => last'.forces = last'.fell
  /\ accelerate /\ ~brake /\ last'.dt > 0
       => last'.forces.a.vx > last'.fell.a.vx
  /\ ~tiltLeft /\ ~tiltRight => last'.post = last'.hit
  /\ tiltLeft # tiltRight => last'.post # last'.hit

\* C16: a step writes none of the four flags and not the track; a flag
\* changes only in an input event, which is never part of a step, so a step
\* goes by one set of flag values from start to end and a change of a flag
\* acts from the next step on.
C16_FlagsReadOnlyInStep ==
  [][ /\ steps' # steps => StepReadsFlags
      /\ flags' # flags => steps' = steps /\ events' = events + 1 ]_vars

\* A step that ran with a flag set and left the flags as they were.
C16_SteppedWithFlagHeld ==
  Stepped /\ last.flags # NoneHeld /\ flags = last.flags /\ events > 0

Types == 0..(NumTypes - 1)

\* Every cell holds a gem type and no three equal gems lie in a row or in a
\* column.
Playable(g) == (\A cell \in Cells : g[cell] \in Types) /\ ~AnyMatch(g)

\* C17: whenever the board is unlocked, every cell of the grid holds a gem
\* type and the grid has no run of three or more equal gems in a row or in
\* a column, whatever taps, swipes, Hint and Restart clicks come between the
\* timed waits of a move.
C17_UnlockedBoardIsPlayable == ~locked => Playable(grid)

\* The step is one of a move made in the game that is on: the move starts,
\* or it goes on after a wait it began in this game.
OfThisGame ==
  \/ waiting.kind = "idle" /\ waiting'.kind # "idle"
  \/ waiting.kind # "idle" /\ waiting.game = gameNo

\* C18: Restart leaves score 0, START_MOVES moves and a freshly filled grid,
\* and after it the grid and the score change only in a move the player
\* makes in the new game, also when a move of the game before is still at
\* one of its waits.
C18_RestartStartsAfresh ==
  [][ /\ gameNo' # gameNo
        => score' = 0 /\ moves' = START_MOVES /\ Playable(grid')
      /\ gameNo' = gameNo /\ (grid' # grid \/ score' # score)
        => OfThisGame ]_vars

\* C19: moves stays between 0 and START_MOVES; a move whose swap makes a
\* match takes exactly one off it and nothing else in tryMove changes it; a
\* move whose swap makes no match ends with grid, score and moves as they
\* were before it; and with no moves left a tap or swipe changes none of
\* the three.
C19_MovesCountedSwapsUndone ==
  /\ [](moves \in 0..START_MOVES)
  /\ [][ /\ waiting.kind = "idle" /\ waiting'.kind = "pop"
           => moves' = moves - 1
         /\ waiting.kind = "idle" /\ waiting'.kind = "rollback"
           => moves' = moves
         /\ waiting.kind # "idle" /\ gameNo' = gameNo => moves' = moves
         /\ waiting.kind = "rollback" /\ waiting'.kind = "idle"
           => /\ grid' = waiting.grid
              /\ score' = waiting.score
              /\ moves' = waiting.moves
         /\ moves = 0 /\ waiting.kind = "idle" /\ gameNo' = gameNo
           => UNCHANGED << grid, score, moves >> ]_vars
====
